---- MODULE Spec2Model ----
(***************************************************************************)
(* Shironeko's Archive: the dual storage of articles.                      *)
(*                                                                         *)
(* App keeps the local categories (persisted in localStorage), receives    *)
(* the published articles from the remote store through a subscription,    *)
(* and merges both into mergedCategories, which the shelf, the book        *)
(* (OpenBook) and the Editor display.  The Editor saves articles locally   *)
(* and publishes, updates and unpublishes them remotely through the        *)
(* article service.                                                        *)
(*                                                                         *)
(* Strings of the program are abstracted as follows.  An article id is a   *)
(* natural number: 0 is the empty string, the first numbers are the ids of *)
(* the built-in articles of CATEGORIES, the following MaxNew numbers are   *)
(* the ids Date.now().toString() produces.  A title or a content is a      *)
(* natural number: 0 is the empty string, 1..NumTexts are texts.  A field  *)
(* that is undefined in the program is "" (categoryId) or FALSE            *)
(* (isDraft, isPublished).                                                 *)
(***************************************************************************)
EXTENDS Naturals, Sequences, FiniteSets

\* number of distinct non-empty texts the author types
NumTexts == 2
\* number of articles the author creates (ids taken from Date.now())
MaxNew == 1
\* number of isArticlePublished lookups in flight at once
MaxLookups == 2
\* number of actions of the user in a run
MaxOps == 5

\* the categories of CATEGORIES, in their order (the first two of the four)
CatOrder == <<"diary", "travel">>
CatIds == {CatOrder[i] : i \in 1..Len(CatOrder)}
\* a categoryId the client's categories do not have
ForeignCat == "legacy"

Texts == 1..NumTexts

NoArticle == [id |-> 0, title |-> 0, content |-> 0, isDraft |-> FALSE,
              categoryId |-> "", isPublished |-> FALSE]

\* the built-in articles "d1" of diary and "t1" of travel
CATEGORIES == [c \in CatIds |->
                 << [id |-> IF c = "diary" THEN 1 ELSE 2, title |-> 1, content |-> 1,
                     isDraft |-> FALSE, categoryId |-> "", isPublished |-> FALSE] >>]

\* the ids of articles: those of the built-in articles and those of Date.now()
BuiltinIds ==
  UNION {{CATEGORIES[c][i].id : i \in 1..Len(CATEGORIES[c])} : c \in CatIds}
ArtIds == 1..(Cardinality(BuiltinIds) + MaxNew)

NoCall == [op |-> "none", stage |-> "none", articleId |-> 0, categoryId |-> "",
           article |-> NoArticle, isPublishedToFirebase |-> FALSE,
           localAtClick |-> NoArticle]

VARIABLES
  categories,            \* App: local categories, category id -> list of articles
  publishedArticles,     \* App: last snapshot the subscription delivered
  mergedCategories,      \* App: result of the merge effect
  remote,                \* the articles collection, ordered by publishedAt desc
  currentUser,           \* auth.currentUser is set
  selectedCategoryId,    \* Editor
  selectedArticleId,     \* Editor, 0 when '' (new entry)
  title,                 \* Editor form
  content,               \* Editor form
  isPublishing,          \* Editor
  isPublishedToFirebase, \* Editor
  publishError,          \* Editor, "null" or the message
  notification,          \* Editor, "null" or the notification's title
  call,                  \* the publish/unpublish handler in flight, with its closure
  lookups,               \* isArticlePublished calls in flight
  nextId,                \* the next id Date.now().toString() gives
  view,                  \* App's view state and OpenBook's, see View
  ops,                   \* number of actions the user has taken
  stored,                \* localStorage: the value under 'scribe_categories'
  reloads,               \* number of times the page was reloaded
  image,                 \* Editor: an image tag, its alt text and its parsed config
  thrown                 \* error thrown by the last direct call of the service

vars == <<categories, publishedArticles, mergedCategories, remote, currentUser,
          selectedCategoryId, selectedArticleId, title, content, isPublishing,
          isPublishedToFirebase, publishError, notification, call, lookups, nextId,
          view, ops, stored, reloads, image, thrown>>

appVars == <<categories, publishedArticles, mergedCategories, stored>>
formVars == <<selectedCategoryId, selectedArticleId, title, content>>
viewVars == <<view>>

\* App: "IDLE", "ZOOMING", "READING" or "CLOSING"
animationPhase == view.phase
\* App: id of the selected category, "" when null
selectedCategory == view.sel
\* App: id of the current article, 0 when null
currentArticle == view.cur
\* location.pathname: /cat/art, cat "" and art 0 when absent
location == view.path
\* App: pending setTimeout callbacks, in creation order
timers == view.timers
\* OpenBook: the article shown, NoArticle when undefined or not mounted
activeArticle == view.active

----------------------------------------------------------------------------
(* Helpers over article lists *)

Ids(arts) == {arts[i].id : i \in 1..Len(arts)}

HasId(arts, id) == \E i \in 1..Len(arts) : arts[i].id = id

\* arts.findIndex(a => a.id === id), 0 when -1
FindIndex(arts, id) ==
  IF HasId(arts, id)
  THEN CHOOSE i \in 1..Len(arts) : arts[i].id = id /\ \A j \in 1..(i-1) : arts[j].id # id
  ELSE 0

\* arts.find(a => a.id === id), NoArticle when undefined
Find(arts, id) == IF HasId(arts, id) THEN arts[FindIndex(arts, id)] ELSE NoArticle

\* arts.filter(a => a.id !== id)
RECURSIVE Without(_, _)
Without(arts, id) ==
  IF arts = << >> THEN << >>
  ELSE IF Head(arts).id = id THEN Without(Tail(arts), id)
       ELSE <<Head(arts)>> \o Without(Tail(arts), id)

----------------------------------------------------------------------------
(* App: the merge effect *)

\* articleMap.set(article.id, article): a Map keeps the position of a key
MapSet(m, article) ==
  IF HasId(m, article.id)
  THEN [m EXCEPT ![FindIndex(m, article.id)] = article]
  ELSE Append(m, article)

RECURSIVE MapSetAll(_, _)
MapSetAll(m, arts) ==
  IF arts = << >> THEN m ELSE MapSetAll(MapSet(m, Head(arts)), Tail(arts))

\* the published articles without the filter on categoryId
PublishedForAnyCategory(pub, c) == pub

\* publishedArticles.filter(article => article.categoryId === category.id)
RECURSIVE PublishedForCategory(_, _)
PublishedForCategory(pub, c) ==
  IF pub = << >> THEN << >>
  ELSE IF Head(pub).categoryId = c
       THEN <<Head(pub)>> \o PublishedForCategory(Tail(pub), c)
       ELSE PublishedForCategory(Tail(pub), c)

\* the merge with the two loops in the other order: the local copy wins
MergeCategoryLocalLast(localArticles, publishedForCategory) ==
  MapSetAll(MapSetAll(<< >>, publishedForCategory), localArticles)

MergeCategory(localArticles, publishedForCategory) ==
  MapSetAll(MapSetAll(<< >>, localArticles), publishedForCategory)

MergeEffect(cats, pub) ==
  [c \in CatIds |-> MergeCategory(cats[c], PublishedForCategory(pub, c))]

----------------------------------------------------------------------------
(* App: handleSaveArticle, handleDeleteArticle *)

handleSaveArticle(cats, categoryId, article) ==
  [c \in CatIds |->
     IF c = categoryId
     THEN IF FindIndex(cats[c], article.id) > 0
          THEN [cats[c] EXCEPT ![FindIndex(cats[c], article.id)] = article]
          ELSE <<article>> \o cats[c]
     ELSE cats[c]]

handleDeleteArticle(cats, categoryId, articleId) ==
  [c \in CatIds |-> IF c = categoryId THEN Without(cats[c], articleId) ELSE cats[c]]

----------------------------------------------------------------------------
(* The article service *)

\* where('isPublished', '==', true), orderBy('publishedAt', 'desc')
RECURSIVE PublishedQuery(_)
PublishedQuery(rem) ==
  IF rem = << >> THEN << >>
  ELSE IF Head(rem).isPublished THEN <<Head(rem)>> \o PublishedQuery(Tail(rem))
       ELSE PublishedQuery(Tail(rem))

\* publishing without the check of auth.currentUser
publishArticleUnchecked(rem, user, article, categoryId) ==
  [error |-> "null",
   remote |-> << [article EXCEPT !.categoryId = categoryId, !.isPublished = TRUE] >>
              \o Without(rem, article.id)]

\* setDoc(doc(db, 'articles', article.id), {...article, categoryId, isPublished: true,
\* publishedAt: now}): the document is replaced and becomes the most recent
publishArticle(rem, user, article, categoryId) ==
  IF ~user
  THEN [error |-> "Must be authenticated to publish articles", remote |-> rem]
  ELSE [error |-> "null",
        remote |-> << [article EXCEPT !.categoryId = categoryId, !.isPublished = TRUE] >>
                   \o Without(rem, article.id)]

\* the fields of updates that are not undefined overwrite the document's
ApplyUpdates(d, updates) ==
  [id |-> updates.id, title |-> updates.title, content |-> updates.content,
   isDraft |-> updates.isDraft,
   categoryId |-> IF updates.categoryId = "" THEN d.categoryId ELSE updates.categoryId,
   isPublished |-> IF updates.isPublished THEN TRUE ELSE d.isPublished]

\* updateDoc fails when the document does not exist
updatePublishedArticle(rem, user, articleId, updates) ==
  IF ~user
  THEN [error |-> "Must be authenticated to update articles", remote |-> rem]
  ELSE IF ~HasId(rem, articleId)
       THEN [error |-> "No document to update", remote |-> rem]
       ELSE [error |-> "null",
             remote |-> [rem EXCEPT ![FindIndex(rem, articleId)] =
                           ApplyUpdates(rem[FindIndex(rem, articleId)], updates)]]

\* unpublishing without the deleteDoc
unpublishArticleKeepsDoc(rem, user, articleId) ==
  IF ~user
  THEN [error |-> "Must be authenticated to unpublish articles", remote |-> rem]
  ELSE [error |-> "null", remote |-> rem]

\* deleteDoc(doc(db, 'articles', articleId))
unpublishArticle(rem, user, articleId) ==
  IF ~user
  THEN [error |-> "Must be authenticated to unpublish articles", remote |-> rem]
  ELSE [error |-> "null", remote |-> Without(rem, articleId)]

\* getPublishedArticle(articleId) !== null
isArticlePublished(rem, articleId) ==
  HasId(rem, articleId) /\ Find(rem, articleId).isPublished


----------------------------------------------------------------------------
(* App and OpenBook: the view.  A view is the record of App's view state   *)
(* (phase: animationPhase, sel: selectedCategory, cur: currentArticle,     *)
(* path: location.pathname, timers) and OpenBook's activeArticle (active), *)
(* with the entries of the browser's session history behind the current    *)
(* one (back, the nearest last) and ahead of it (fwd, the nearest first).   *)
(* Two fields tell the renders that follow an event apart: selLocal, that  *)
(* selectedCategory is still the object taken from the local categories by *)
(* handleCategorySelect, and mounted, that the previous render rendered    *)
(* OpenBook.  Once the effects have settled selLocal is FALSE and mounted  *)
(* tells whether OpenBook is rendered.                                     *)

RootPath == [cat |-> "", art |-> 0]

\* navigate(to) with a relative path resolves against the root
CategoryPath(c) == [cat |-> c, art |-> 0]
ArticlePath(c, a) == [cat |-> c, art |-> a]

ZoomTimer(c) == [kind |-> "zoom", delay |-> 600, cat |-> c, skipNavigate |-> FALSE]
CloseTimer(skipNavigate) ==
  [kind |-> "close", delay |-> 800, cat |-> "", skipNavigate |-> skipNavigate]

\* the articles of the category without the filter
allArticles(arts) == arts

\* navigate(to): the router pushes the location on the session history
Navigate(v, p) == [v EXCEPT !.back = Append(@, v.path), !.fwd = << >>, !.path = p]

\* category.articles.filter(a => !a.isDraft)
RECURSIVE visibleArticles(_)
visibleArticles(arts) ==
  IF arts = << >> THEN << >>
  ELSE IF ~Head(arts).isDraft THEN <<Head(arts)>> \o visibleArticles(Tail(arts))
       ELSE visibleArticles(Tail(arts))

First(arts) == IF Len(arts) > 0 THEN arts[1] ELSE NoArticle

View == view

NoDeps == [path |-> FALSE, merged |-> FALSE, sel |-> FALSE, cur |-> FALSE,
           active |-> FALSE]

\* OpenBook is rendered
IsMounted(v) == v.phase # "IDLE" /\ v.sel # ""

\* the category prop of OpenBook: selectedCategory
CategoryArticles(v, m, cats) ==
  IF v.sel = "" THEN << >> ELSE IF v.selLocal THEN cats[v.sel] ELSE m[v.sel]

\* OpenBook's activeArticle in this render: the useState initializer on mount
ActiveInRender(v, visible) ==
  IF ~IsMounted(v) THEN NoArticle
  ELSE IF ~v.mounted
       THEN IF v.cur # 0 THEN Find(visible, v.cur) ELSE First(visible)
       ELSE v.active

\* what OpenBook's effects queue, given that the sync with the
\* activeArticleId prop (sync) and the fallback (fallback) act
OpenBookQueued(v, visible, act, sync, fallback) ==
  [active |-> IF fallback THEN First(visible)
              ELSE IF sync THEN Find(visible, v.cur) ELSE act,
   cur |-> IF fallback THEN First(visible).id ELSE v.cur,
   path |-> IF fallback /\ v.sel # ""
            THEN IF First(visible) # NoArticle
                 THEN ArticlePath(v.sel, First(visible).id)
                 ELSE CategoryPath(v.sel)
            ELSE v.path,
   nav |-> fallback /\ v.sel # ""]

\* the conditions of OpenBook's effects with activeArticle act; run tells
\* that the effects run in this render
OpenBookConditions(v, visible, act, run) ==
  LET gone == run /\ act # NoArticle /\ ~HasId(visible, act.id)
  IN  OpenBookQueued(v, visible, act,
        run /\ v.cur # 0 /\ HasId(visible, v.cur) /\ v.cur # act.id,
        gone \/ (run /\ ~gone /\ act = NoArticle /\ Len(visible) > 0 /\ v.cur = 0))

\* OpenBook's two effects, queued in this order: the sync with the
\* activeArticleId prop, then the fallback, which calls onArticleSelect
\* (handleArticleNavigation)
OpenBookEffects(v, visible, d) ==
  OpenBookConditions(v, visible, ActiveInRender(v, visible),
    IsMounted(v) /\ (~v.mounted \/ d.cur \/ d.sel \/ d.active))

\* what App's routing effect queues when its branches back (root while
\* reading), reset (root with a selection) and open (another category) act
RoutingQueued(v, u, art, run, found, back, reset, open) ==
  [phase |-> IF back THEN "CLOSING"
             ELSE IF reset THEN "IDLE"
             ELSE IF open /\ v.phase = "IDLE" THEN "READING" ELSE u.phase,
   sel |-> IF reset THEN "" ELSE IF open THEN v.path.cat ELSE u.sel,
   selSet |-> open,
   cur |-> IF reset THEN 0
           ELSE IF run /\ found /\ v.path.art # 0
                THEN IF art # NoArticle /\ v.cur # art.id THEN art.id ELSE u.cur
                ELSE IF run /\ found /\ v.cur # 0 THEN 0 ELSE u.cur,
   timers |-> IF back THEN Append(u.timers, CloseTimer(TRUE)) ELSE u.timers]

RoutingBranches(v, u, m, run, atRoot, found) ==
  RoutingQueued(v, u,
    IF found THEN Find(m[v.path.cat], v.path.art) ELSE NoArticle,
    run, found,
    run /\ atRoot /\ v.phase \in {"READING", "ZOOMING"},
    run /\ atRoot /\ v.phase \notin {"READING", "ZOOMING"} /\ v.sel # "",
    run /\ found /\ v.sel # v.path.cat)

\* App's routing effect, run when location.pathname or mergedCategories
\* changed; u is the view with the updates OpenBook's effects queued
RoutingEffect(v, u, m, d) ==
  RoutingBranches(v, u, m, d.path \/ d.merged, v.path.cat = "", v.path.cat \in CatIds)

\* the view after a render and the dependencies that changed in it
Rendered(v, w, selSet) ==
  [view |-> w,
   deps |-> [path |-> w.path # v.path, merged |-> FALSE,
             sel |-> selSet \/ w.sel # v.sel,
             cur |-> w.cur # v.cur, active |-> w.active # v.active]]

\* App's sync of selectedCategory with mergedCategories, which replaces the
\* object when it is not the one in mergedCategories (resync); o and r are
\* what OpenBook's effects and the routing effect queued
SyncEffect(v, o, r, resync) ==
  Rendered(v,
    [phase |-> r.phase, sel |-> IF resync THEN v.sel ELSE r.sel, cur |-> r.cur,
     path |-> o.path, timers |-> r.timers, active |-> o.active,
     back |-> IF o.nav THEN Append(v.back, v.path) ELSE v.back,
     fwd |-> IF o.nav THEN << >> ELSE v.fwd,
     selLocal |-> IF resync \/ r.selSet THEN FALSE ELSE v.selLocal,
     mounted |-> IsMounted(v)],
    resync \/ r.selSet)

AppEffects(v, o, m, d) ==
  SyncEffect(v, o,
    RoutingEffect(v, [v EXCEPT !.active = o.active, !.cur = o.cur, !.path = o.path], m, d),
    (d.merged \/ d.sel) /\ v.sel # "" /\ (v.selLocal \/ d.merged))

\* one render and its effects: OpenBook's, then App's routing effect, then
\* App's sync of selectedCategory
Render(v, m, cats, d) ==
  AppEffects(v, OpenBookEffects(v, visibleArticles(CategoryArticles(v, m, cats)), d), m, d)

Changed(d) == d.path \/ d.merged \/ d.sel \/ d.cur \/ d.active

\* renders until no state and no dependency changes
RECURSIVE Settle(_, _, _, _)
Rerender(v, m, cats, r) ==
  IF ~Changed(r.deps) /\ r.view = v /\ IsMounted(v) = v.mounted
  THEN IF IsMounted(v) THEN v ELSE [v EXCEPT !.active = NoArticle]
  ELSE Settle(r.view, m, cats, r.deps)

Settle(v, m, cats, d) == Rerender(v, m, cats, Render(v, m, cats, d))

\* the view after the event left it as v, with mergedCategories m
SettleView(v, m, cats, d) == view' = Settle(v, m, cats, d)

----------------------------------------------------------------------------
(* Editor: the two effects that follow a change of the selection or of the *)
(* categories prop (mergedCategories).  The first clears a selection whose *)
(* article is gone, the second loads the selected article into the form    *)
(* and asks the remote store whether it is published.  The content of the  *)
(* form is the article's content without its image definitions; a text     *)
(* here stands for the trimmed body, which separateContent and executeSave *)
(* carry over unchanged.                                                   *)

EditorEffects(m, cat, art, t, c) ==
  IF art = 0
  THEN [selectedArticleId |-> 0, title |-> t, content |-> c, lookup |-> 0]
  ELSE IF ~HasId(m[cat], art)
       THEN [selectedArticleId |-> 0, title |-> 0, content |-> 0, lookup |-> 0]
       ELSE [selectedArticleId |-> art, title |-> Find(m[cat], art).title,
             content |-> Find(m[cat], art).content, lookup |-> art]

\* isArticlePublished(selectedArticleId) is sent
WithLookup(ls, id) ==
  IF id = 0 THEN ls ELSE ls \cup {[id |-> id, res |-> "sent"]}

\* the effects run and their results are committed
RunEditorEffects(m, cat, art, t, c) ==
  LET e == EditorEffects(m, cat, art, t, c)
  IN  /\ Cardinality(WithLookup(lookups, e.lookup)) <= MaxLookups
      /\ selectedCategoryId' = cat
      /\ selectedArticleId' = e.selectedArticleId
      /\ title' = e.title
      /\ content' = e.content
      /\ lookups' = WithLookup(lookups, e.lookup)

----------------------------------------------------------------------------
(* Editor: the markdown tag of an image. A string is the sequence of its   *)
(* characters; the alt text of a tag holds the caption, the layout, the    *)
(* width and the height, separated by '|'.                                 *)

MaxFieldLen == 2

Chars == {"a", "|"}
Center == <<"c", "e", "n", "t", "e", "r">>
Auto == <<"a", "u", "t", "o">>
Bar == <<"|">>

HasBar(s) == \E i \in 1..Len(s) : s[i] = "|"
FirstBar(s) == CHOOSE i \in 1..Len(s) : s[i] = "|" /\ \A j \in 1..(i-1) : s[j] # "|"

\* alt.split('|')
RECURSIVE Split(_)
Split(s) ==
  IF HasBar(s)
  THEN << SubSeq(s, 1, FirstBar(s) - 1) >> \o Split(SubSeq(s, FirstBar(s) + 1, Len(s)))
  ELSE << s >>

\* parts[i] || default: the default when parts[i] is undefined or ''
Part(parts, i, default) ==
  IF i <= Len(parts) /\ parts[i] # << >> THEN parts[i] ELSE default

parseAlt(alt) ==
  [caption |-> Part(Split(alt), 1, << >>),
   layout |-> Part(Split(alt), 2, Center),
   width |-> Part(Split(alt), 3, Auto),
   height |-> Part(Split(alt), 4, Auto)]

\* a tag that writes the width before the layout
buildTagWidthFirst(config) ==
  <<"!", "[">> \o config.caption \o Bar \o config.width \o Bar \o config.layout
    \o Bar \o config.height \o <<"]", "[">> \o config.refId \o <<"]">>

\* `![${caption}|${layout}|${width}|${height}][${refId}]`
buildTag(config) ==
  <<"!", "[">> \o config.caption \o Bar \o config.layout \o Bar \o config.width
    \o Bar \o config.height \o <<"]", "[">> \o config.refId \o <<"]">>

\* the alt text of a tag of buildTag: what stands between ![ and ][refId]
AltText(tag, refId) == SubSeq(tag, 3, Len(tag) - Len(refId) - 3)

NoConfig == [caption |-> << >>, layout |-> << >>, width |-> << >>, height |-> << >>,
             refId |-> << >>]
NoParsed == [caption |-> << >>, layout |-> << >>, width |-> << >>, height |-> << >>]
NoImage == [stage |-> "none", config |-> NoConfig, tag |-> << >>, alt |-> << >>,
            parsed |-> NoParsed]

----------------------------------------------------------------------------
(* App: the local categories in localStorage. The stored value is << >>    *)
(* when getItem gives null and <<text>> otherwise; a JSON text is the      *)
(* lists of objects it denotes, an object being a function on the keys it  *)
(* has. The fields of a category other than its articles never change.     *)

MaxReloads == 1

\* the keys JSON.stringify writes: a key whose value is undefined is left out
\* (categoryId and isPublished are never set on a local article)
DefinedKeys(a) ==
  {"id", "title", "content", "isDraft"}
    \cup (IF a.categoryId # "" THEN {"categoryId"} ELSE {})
    \cup (IF a.isPublished THEN {"isPublished"} ELSE {})

StringifyArticle(a) == [k \in DefinedKeys(a) |-> a[k]]

\* JSON.stringify(categories)
Stringify(cats) ==
  [c \in CatIds |-> [i \in 1..Len(cats[c]) |-> StringifyArticle(cats[c][i])]]

\* reading a key the object does not have gives undefined
ParseArticle(o) ==
  [id |-> o["id"], title |-> o["title"], content |-> o["content"],
   isDraft |-> o["isDraft"],
   categoryId |-> IF "categoryId" \in DOMAIN o THEN o["categoryId"] ELSE "",
   isPublished |-> IF "isPublished" \in DOMAIN o THEN o["isPublished"] ELSE FALSE]

\* JSON.parse(saved)
Parse(json) ==
  [c \in CatIds |-> [i \in 1..Len(json[c]) |-> ParseArticle(json[c][i])]]

\* an initializer that never reads localStorage
LoadBuiltin(saved) == CATEGORIES

\* useState's initializer: saved ? JSON.parse(saved) : CATEGORIES
LoadCategories(saved) == IF saved # << >> THEN Parse(saved[1]) ELSE CATEGORIES

\* localStorage.setItem('scribe_categories', JSON.stringify(categories))
setItem(cats) == << Stringify(cats) >>

----------------------------------------------------------------------------
(* Initial state: App and Editor have mounted and their effects have run.   *)
(* The page is opened at the root or through a link to a category or to an *)
(* article; localStorage has no entry, or the categories a former session  *)
(* saved.                                                                  *)

InitPaths == {RootPath, CategoryPath("diary"), ArticlePath("diary", 1)}

\* CATEGORIES, and CATEGORIES after the built-in article of diary was saved as a draft
InitCategories ==
  {CATEGORIES,
   [CATEGORIES EXCEPT !["diary"] = << [CATEGORIES["diary"][1] EXCEPT !.isDraft = TRUE] >>]}

AllDeps == [path |-> TRUE, merged |-> TRUE, sel |-> TRUE, cur |-> TRUE,
            active |-> TRUE]
MergedDeps == [NoDeps EXCEPT !.merged = TRUE]

MountView(p) ==
  [phase |-> "IDLE", sel |-> "", cur |-> 0, path |-> p, timers |-> << >>,
   active |-> NoArticle, back |-> << >>, fwd |-> << >>, selLocal |-> FALSE,
   mounted |-> FALSE]

\* what localStorage holds when the page is opened
StoredInputs == {<< >>} \cup {setItem(cats) : cats \in InitCategories}

Init ==
  /\ \E saved \in StoredInputs : categories = LoadCategories(saved)
  /\ \E p \in InitPaths : view = Settle(MountView(p), categories, categories, AllDeps)
  /\ publishedArticles = << >>
  /\ mergedCategories = categories
  /\ remote = << >>
  /\ currentUser = FALSE
  /\ selectedCategoryId = CatOrder[1]
  /\ selectedArticleId = 0
  /\ title = 0
  /\ content = 0
  /\ isPublishing = FALSE
  /\ isPublishedToFirebase = FALSE
  /\ publishError = "null"
  /\ notification = "null"
  /\ call = NoCall
  /\ lookups = {}
  /\ nextId = Cardinality(BuiltinIds) + 1
  /\ ops = 0
  /\ stored = setItem(categories)
  /\ reloads = 0
  /\ image = NoImage
  /\ thrown = "null"

\* an action of the user
UserActs == ops < MaxOps /\ ops' = ops + 1 /\ UNCHANGED <<reloads, image>>

----------------------------------------------------------------------------
(* Editor: the form *)

SetTitle(t) ==
  /\ UserActs
  /\ t # title
  /\ title' = t
  /\ UNCHANGED <<viewVars, appVars, remote, currentUser, selectedCategoryId, selectedArticleId,
                 content, isPublishing, isPublishedToFirebase, publishError,
                 notification, call, lookups, nextId, thrown>>

SetContent(c) ==
  /\ UserActs
  /\ c # content
  /\ content' = c
  /\ UNCHANGED <<viewVars, appVars, remote, currentUser, selectedCategoryId, selectedArticleId,
                 title, isPublishing, isPublishedToFirebase, publishError,
                 notification, call, lookups, nextId, thrown>>

SetSelectedCategoryId(c) ==
  /\ UserActs
  /\ c # selectedCategoryId
  /\ RunEditorEffects(mergedCategories, c, selectedArticleId, title, content)
  /\ UNCHANGED <<viewVars, appVars, remote, currentUser, isPublishing, isPublishedToFirebase,
                 publishError, notification, call, nextId, thrown>>

\* the options are '' and the articles of the selected merged category
handleEntryChange(newVal) ==
  /\ UserActs
  /\ newVal # selectedArticleId
  /\ newVal = 0 \/ HasId(mergedCategories[selectedCategoryId], newVal)
  /\ IF newVal = 0
     THEN RunEditorEffects(mergedCategories, selectedCategoryId, 0, 0, 0)
     ELSE RunEditorEffects(mergedCategories, selectedCategoryId, newVal, title, content)
  /\ UNCHANGED <<viewVars, appVars, remote, currentUser, isPublishing, isPublishedToFirebase,
                 publishError, notification, call, nextId, thrown>>

\* the "new entry" button: setSelectedArticleId(''); clearForm()
NewEntry ==
  /\ UserActs
  /\ selectedArticleId # 0 \/ title # 0 \/ content # 0
  /\ RunEditorEffects(mergedCategories, selectedCategoryId, 0, 0, 0)
  /\ UNCHANGED <<viewVars, appVars, remote, currentUser, isPublishing, isPublishedToFirebase,
                 publishError, notification, call, nextId, thrown>>

----------------------------------------------------------------------------
(* Editor: executeSave (Save Draft, and Publish once confirmed) with App's *)
(* handleSaveArticle, merge effect and the Editor's effects                *)

NewArticle(id, isDraft) ==
  [id |-> id, title |-> title, content |-> content, isDraft |-> isDraft,
   categoryId |-> "", isPublished |-> FALSE]

SavedId == IF selectedArticleId # 0 THEN selectedArticleId ELSE nextId

executeSave(isDraft) ==
  /\ UserActs
  /\ title # 0 /\ content # 0
  /\ SavedId \in ArtIds
  /\ categories' = handleSaveArticle(categories, selectedCategoryId,
                                     NewArticle(SavedId, isDraft))
  /\ stored' = setItem(categories')
  /\ mergedCategories' = MergeEffect(categories', publishedArticles)
  /\ RunEditorEffects(mergedCategories', selectedCategoryId, SavedId, title, content)
  /\ nextId' = IF selectedArticleId # 0 THEN nextId ELSE nextId + 1
  /\ notification' = IF isDraft THEN "Draft Saved" ELSE "Published Successfully"
  /\ SettleView(View, mergedCategories', categories', MergedDeps)
  /\ UNCHANGED <<publishedArticles, remote, currentUser, isPublishing,
                 isPublishedToFirebase, publishError, call, thrown>>

\* a deletion that also deletes the remote document
handleConfirmDeleteRemote ==
  /\ UserActs
  /\ selectedArticleId # 0
  /\ categories' = handleDeleteArticle(categories, selectedCategoryId, selectedArticleId)
  /\ remote' = Without(remote, selectedArticleId)
  /\ stored' = setItem(categories')
  /\ mergedCategories' = MergeEffect(categories', publishedArticles)
  /\ RunEditorEffects(mergedCategories', selectedCategoryId, 0, 0, 0)
  /\ SettleView(View, mergedCategories', categories', MergedDeps)
  /\ UNCHANGED <<publishedArticles, currentUser, isPublishing,
                 isPublishedToFirebase, publishError, notification, call, nextId,
                 thrown>>

\* the password modal's onSuccess
handleConfirmDelete ==
  /\ UserActs
  /\ selectedArticleId # 0
  /\ categories' = handleDeleteArticle(categories, selectedCategoryId, selectedArticleId)
  /\ stored' = setItem(categories')
  /\ mergedCategories' = MergeEffect(categories', publishedArticles)
  /\ RunEditorEffects(mergedCategories', selectedCategoryId, 0, 0, 0)
  /\ SettleView(View, mergedCategories', categories', MergedDeps)
  /\ UNCHANGED <<publishedArticles, remote, currentUser, isPublishing,
                 isPublishedToFirebase, publishError, notification, call, nextId,
                 thrown>>

\* setTimeout(() => setNotification(null), 3000)
NotificationTimeout ==
  /\ notification # "null"
  /\ notification' = "null"
  /\ UNCHANGED <<viewVars, appVars, formVars, remote, currentUser, isPublishing,
                 isPublishedToFirebase, publishError, call, lookups, nextId, ops, reloads, image, thrown>>

----------------------------------------------------------------------------
(* App: the subscription delivers the result of the published query *)

DeliverSnapshot ==
  /\ publishedArticles # PublishedQuery(remote)
  /\ publishedArticles' = PublishedQuery(remote)
  /\ mergedCategories' = MergeEffect(categories, publishedArticles')
  /\ RunEditorEffects(mergedCategories', selectedCategoryId, selectedArticleId,
                      title, content)
  /\ SettleView(View, mergedCategories', categories, MergedDeps)
  /\ UNCHANGED <<categories, stored, remote, currentUser, isPublishing, isPublishedToFirebase,
                 publishError, notification, call, nextId, ops, reloads, image, thrown>>

----------------------------------------------------------------------------
(* Editor: the load effect's isArticlePublished(...).then(setIsPublishedToFirebase) *)

LookupRead ==
  \E l \in lookups :
    /\ l.res = "sent"
    /\ lookups' = (lookups \ {l}) \cup
                    {[id |-> l.id,
                      res |-> IF isArticlePublished(remote, l.id) THEN "true" ELSE "false"]}
    /\ UNCHANGED <<viewVars, appVars, formVars, remote, currentUser, isPublishing,
                   isPublishedToFirebase, publishError, notification, call, nextId,
                   ops, reloads, image, thrown>>

\* .catch(() => setIsPublishedToFirebase(false)) when the read fails
LookupResolve ==
  \E l \in lookups :
    /\ lookups' = lookups \ {l}
    /\ isPublishedToFirebase' = (l.res = "true")
    /\ UNCHANGED <<viewVars, appVars, formVars, remote, currentUser, isPublishing, publishError,
                   notification, call, nextId, ops, reloads, image, thrown>>

----------------------------------------------------------------------------
(* Editor: handlePublishToFirebase and handleUnpublishFromFirebase.  The   *)
(* handler is a closure over the render in which the button was clicked:   *)
(* selectedArticleId, selectedCategoryId, isPublishedToFirebase and the    *)
(* categories prop are those of the click.  localAtClick records the local *)
(* copy of the article at the click; the handler does not read it.         *)

handlePublishToFirebase ==
  /\ UserActs
  /\ ~isPublishing
  /\ selectedArticleId # 0
  /\ isPublishedToFirebase \/ (title # 0 /\ content # 0)
  /\ IF title = 0 \/ content = 0
     THEN /\ publishError' = "Please save your article first"
          /\ UNCHANGED <<isPublishing, call>>
     ELSE /\ publishError' = "null"
          /\ isPublishing' = TRUE
          /\ call' = [op |-> "publish",
                      stage |-> IF currentUser THEN "service" ELSE "signin",
                      articleId |-> selectedArticleId,
                      categoryId |-> selectedCategoryId,
                      article |-> Find(mergedCategories[selectedCategoryId],
                                       selectedArticleId),
                      isPublishedToFirebase |-> isPublishedToFirebase,
                      localAtClick |-> Find(categories[selectedCategoryId],
                                            selectedArticleId)]
  /\ UNCHANGED <<viewVars, appVars, formVars, remote, currentUser, isPublishedToFirebase,
                 notification, lookups, nextId, thrown>>

handleUnpublishFromFirebase ==
  /\ UserActs
  /\ ~isPublishing
  /\ selectedArticleId # 0
  /\ isPublishedToFirebase
  /\ publishError' = "null"
  /\ isPublishing' = TRUE
  /\ call' = [op |-> "unpublish",
              stage |-> IF currentUser THEN "service" ELSE "signin",
              articleId |-> selectedArticleId,
              categoryId |-> selectedCategoryId,
              article |-> NoArticle,
              isPublishedToFirebase |-> isPublishedToFirebase,
              localAtClick |-> Find(categories[selectedCategoryId], selectedArticleId)]
  /\ UNCHANGED <<viewVars, appVars, formVars, remote, currentUser, isPublishedToFirebase,
                 notification, lookups, nextId, thrown>>

\* the handler goes on to the service call without a signed-in user
SignInSkipped(ok) ==
  /\ call.stage = "signin"
  /\ call' = [call EXCEPT !.stage = "service"]
  /\ UNCHANGED <<viewVars, appVars, formVars, remote, currentUser, isPublishing,
                 isPublishedToFirebase, publishError, notification, lookups, nextId,
                 ops, reloads, image, thrown>>

\* await signInAnonymously(auth) settles: the user is signed in, or the
\* rejection goes to catch and finally
SignInSettles(ok) ==
  /\ call.stage = "signin"
  /\ IF ok
     THEN /\ currentUser' = TRUE
          /\ call' = [call EXCEPT !.stage = "service"]
          /\ UNCHANGED <<publishError, isPublishing>>
     ELSE /\ publishError' = "auth/network-request-failed"
          /\ isPublishing' = FALSE
          /\ call' = NoCall
          /\ UNCHANGED currentUser
  /\ UNCHANGED <<viewVars, appVars, formVars, remote, isPublishedToFirebase, notification,
                 lookups, nextId, ops, reloads, image, thrown>>

\* the service function the handler calls, applied to the remote store
ServiceResult ==
  IF call.op = "unpublish"
  THEN unpublishArticle(remote, currentUser, call.articleId)
  ELSE IF call.isPublishedToFirebase
       THEN updatePublishedArticle(remote, currentUser, call.articleId, call.article)
       ELSE publishArticle(remote, currentUser, call.article, call.categoryId)

SuccessNotification ==
  IF call.op = "unpublish" THEN "Unpublished"
  ELSE IF call.isPublishedToFirebase THEN "Updated Online" ELSE "Published Online"

\* the awaited service call settles; delivered is FALSE when the request
\* does not reach the remote store
ServiceSettles(delivered) ==
  /\ call.stage = "service"
  /\ IF call.op = "publish" /\ call.article = NoArticle
     THEN UNCHANGED <<remote, isPublishedToFirebase, notification, publishError>>
     ELSE IF delivered /\ ServiceResult.error = "null"
          THEN /\ remote' = ServiceResult.remote
               /\ isPublishedToFirebase' =
                    IF call.op = "unpublish" THEN FALSE
                    ELSE IF call.isPublishedToFirebase THEN isPublishedToFirebase
                         ELSE TRUE
               /\ notification' = SuccessNotification
               /\ UNCHANGED publishError
          ELSE /\ publishError' = IF delivered THEN ServiceResult.error ELSE "unavailable"
               /\ UNCHANGED <<remote, isPublishedToFirebase, notification>>
  /\ isPublishing' = FALSE
  /\ call' = NoCall
  /\ UNCHANGED <<viewVars, appVars, formVars, currentUser, lookups, nextId, ops, reloads, image, thrown>>


----------------------------------------------------------------------------
(* App and OpenBook: the events of the view *)

editorVars == <<formVars, isPublishing, isPublishedToFirebase, publishError,
                notification, call, lookups, nextId>>

\* a click on a cover of the shelf, which takes clicks in phase IDLE only
handleCategorySelect(c) ==
  /\ UserActs
  /\ animationPhase = "IDLE"
  /\ SettleView([View EXCEPT !.sel = c, !.selLocal = TRUE, !.phase = "ZOOMING",
                             !.timers = Append(@, ZoomTimer(c))],
                mergedCategories, categories, [NoDeps EXCEPT !.sel = TRUE])
  /\ UNCHANGED <<appVars, editorVars, remote, currentUser, thrown>>

\* Escape or the book's back button while the book is shown
handleBackToHome ==
  /\ UserActs
  /\ animationPhase = "READING"
  /\ SettleView([View EXCEPT !.phase = "CLOSING",
                             !.timers = Append(@, CloseTimer(FALSE))],
                mergedCategories, categories, NoDeps)
  /\ UNCHANGED <<appVars, editorVars, remote, currentUser, thrown>>

\* a click on an entry of the book's index, with handleArticleNavigation
handleArticleClick(a) ==
  /\ UserActs
  /\ animationPhase = "READING"
  /\ selectedCategory # ""
  /\ HasId(visibleArticles(mergedCategories[selectedCategory]), a)
  /\ SettleView(Navigate([View EXCEPT
                   !.active = Find(visibleArticles(mergedCategories[selectedCategory]), a),
                   !.cur = a], ArticlePath(selectedCategory, a)),
                mergedCategories, categories,
                [NoDeps EXCEPT !.active = TRUE, !.cur = (a # currentArticle),
                               !.path = (ArticlePath(selectedCategory, a) # location)])
  /\ UNCHANGED <<appVars, editorVars, remote, currentUser, thrown>>

\* a timer fires after its delay: not before a timer that was set earlier
\* with a delay that is not longer
CanFire(i) == \A j \in 1..(i-1) : timers[j].delay > timers[i].delay

RemoveAt(seq, i) == SubSeq(seq, 1, i-1) \o SubSeq(seq, i+1, Len(seq))

\* the callback of handleCategorySelect: setAnimationPhase('READING'); navigate(id)
\* the callback of handleBackToHome: IDLE, null, null, navigate('/') unless skipped
TimeoutView(t, v) ==
  IF t.kind = "zoom"
  THEN Navigate([v EXCEPT !.phase = "READING"], CategoryPath(t.cat))
  ELSE IF t.skipNavigate
       THEN [v EXCEPT !.phase = "IDLE", !.sel = "", !.cur = 0]
       ELSE Navigate([v EXCEPT !.phase = "IDLE", !.sel = "", !.cur = 0], RootPath)

TimerFires(i) ==
  /\ i \in 1..Len(timers)
  /\ CanFire(i)
  /\ SettleView(TimeoutView(timers[i], [View EXCEPT !.timers = RemoveAt(timers, i)]),
                mergedCategories, categories,
                [NoDeps EXCEPT
                   !.path = (TimeoutView(timers[i], View).path # location),
                   !.sel = (TimeoutView(timers[i], View).sel # selectedCategory),
                   !.cur = (TimeoutView(timers[i], View).cur # currentArticle)])
  /\ UNCHANGED <<appVars, editorVars, remote, currentUser, ops, reloads, image, thrown>>

\* the browser's back button: popstate, the router sets location to the
\* entry behind the current one
BrowserBack ==
  /\ UserActs
  /\ view.back # << >>
  /\ SettleView([View EXCEPT !.path = view.back[Len(view.back)],
                             !.back = SubSeq(@, 1, Len(@) - 1),
                             !.fwd = <<view.path>> \o @],
                mergedCategories, categories,
                [NoDeps EXCEPT !.path = (view.back[Len(view.back)] # location)])
  /\ UNCHANGED <<appVars, editorVars, remote, currentUser, thrown>>

\* the browser's forward button
BrowserForward ==
  /\ UserActs
  /\ view.fwd # << >>
  /\ SettleView([View EXCEPT !.path = view.fwd[1],
                             !.fwd = Tail(@),
                             !.back = Append(@, view.path)],
                mergedCategories, categories,
                [NoDeps EXCEPT !.path = (view.fwd[1] # location)])
  /\ UNCHANGED <<appVars, editorVars, remote, currentUser, thrown>>

----------------------------------------------------------------------------
(* The author reloads the page while no publish request is in flight: App  *)
(* and Editor mount again with their initial state, the subscription and   *)
(* the pending timers and lookups of the old page are gone. The session    *)
(* history, the remote store and localStorage outlive the page; the signed *)
(* in user is restored by the auth library or not yet.                     *)

Reload ==
  /\ ops < MaxOps /\ ops' = ops + 1
  /\ reloads < MaxReloads /\ reloads' = reloads + 1
  /\ call = NoCall
  /\ categories' = LoadCategories(stored)
  /\ stored' = setItem(categories')
  /\ publishedArticles' = << >>
  /\ mergedCategories' = MergeEffect(categories', publishedArticles')
  /\ view' = Settle([MountView(location) EXCEPT !.back = view.back, !.fwd = view.fwd],
                    mergedCategories', categories', AllDeps)
  /\ \E u \in {FALSE, currentUser} : currentUser' = u
  /\ selectedCategoryId' = CatOrder[1]
  /\ selectedArticleId' = 0
  /\ title' = 0
  /\ content' = 0
  /\ isPublishing' = FALSE
  /\ isPublishedToFirebase' = FALSE
  /\ publishError' = "null"
  /\ notification' = "null"
  /\ lookups' = {}
  /\ UNCHANGED <<remote, call, nextId, image, thrown>>

----------------------------------------------------------------------------

Next ==
  \/ \E t \in {0} \cup Texts : SetTitle(t)
  \/ \E c \in {0} \cup Texts : SetContent(c)
  \/ \E c \in CatIds : SetSelectedCategoryId(c)
  \/ \E a \in {0} \cup ArtIds : handleEntryChange(a)
  \/ NewEntry
  \/ \E isDraft \in BOOLEAN : executeSave(isDraft)
  \/ handleConfirmDelete
  \/ NotificationTimeout
  \/ DeliverSnapshot
  \/ LookupRead
  \/ LookupResolve
  \/ handlePublishToFirebase
  \/ handleUnpublishFromFirebase
  \/ \E ok \in BOOLEAN : SignInSettles(ok)
  \/ \E delivered \in BOOLEAN : ServiceSettles(delivered)
  \/ \E c \in CatIds : handleCategorySelect(c)
  \/ handleBackToHome
  \/ \E a \in ArtIds : handleArticleClick(a)
  \/ \E i \in 1..2 : TimerFires(i)
  \/ BrowserBack
  \/ BrowserForward
  \/ Reload

Spec == Init /\ [][Next]_vars

----------------------------------------------------------------------------
(* The merge effect alone: App with any local categories and any snapshot  *)
(* of published articles, whose categoryId may be one the client does not  *)
(* have.  Local articles carry the first text, published ones the last.    *)

LocalInput(id) ==
  [id |-> id, title |-> 1, content |-> 1, isDraft |-> FALSE, categoryId |-> "",
   isPublished |-> FALSE]

PublishedInput(id, c) ==
  [id |-> id, title |-> NumTexts, content |-> NumTexts, isDraft |-> FALSE,
   categoryId |-> c, isPublished |-> TRUE]

\* the lists over the ids of the built-in articles that hold an id at most once
IdLists ==
  {q \in UNION {[1..n -> BuiltinIds] : n \in 0..Cardinality(BuiltinIds)} :
     \A i, j \in 1..Len(q) : i # j => q[i] # q[j]}

LocalInputs ==
  {[c \in CatIds |-> [i \in 1..Len(f[c]) |-> LocalInput(f[c][i])]] :
     f \in [CatIds -> IdLists]}

PublishedInputs ==
  UNION {{[i \in 1..Len(q) |-> PublishedInput(q[i], g[i])] :
            g \in [1..Len(q) -> CatIds \cup {ForeignCat}]} : q \in IdLists}

InitRest ==
  /\ remote = << >>
  /\ currentUser = FALSE
  /\ selectedCategoryId = CatOrder[1]
  /\ selectedArticleId = 0
  /\ title = 0
  /\ content = 0
  /\ isPublishing = FALSE
  /\ isPublishedToFirebase = FALSE
  /\ publishError = "null"
  /\ notification = "null"
  /\ call = NoCall
  /\ lookups = {}
  /\ nextId = Cardinality(BuiltinIds) + 1
  /\ view = MountView(RootPath)
  /\ ops = 0
  /\ stored = setItem(categories)
  /\ reloads = 0
  /\ image = NoImage
  /\ thrown = "null"

InitMerge ==
  /\ categories \in LocalInputs
  /\ publishedArticles = << >>
  /\ mergedCategories = MergeEffect(categories, publishedArticles)
  /\ InitRest

\* setPublishedArticles(articles) and the merge effect
SetPublishedArticles(articles) ==
  /\ publishedArticles' = articles
  /\ mergedCategories' = MergeEffect(categories, publishedArticles')
  /\ UNCHANGED <<categories, stored, remote, currentUser, editorVars, viewVars, ops, reloads, image, thrown>>

\* setCategories(cats) and the merge effect
SetCategories(cats) ==
  /\ categories' = cats
  /\ stored' = setItem(categories')
  /\ mergedCategories' = MergeEffect(categories', publishedArticles)
  /\ UNCHANGED <<publishedArticles, remote, currentUser, editorVars, viewVars, ops, reloads, image,
                 thrown>>

NextMerge ==
  \/ \E articles \in PublishedInputs : SetPublishedArticles(articles)
  \/ \E cats \in LocalInputs : SetCategories(cats)

SpecMerge == InitMerge /\ [][NextMerge]_vars

----------------------------------------------------------------------------
(* The article service alone: its functions called with and without a     *)
(* signed-in user, on any remote store                                     *)

RemoteInputs == {q \in PublishedInputs : \A i \in 1..Len(q) : q[i].categoryId \in CatIds}

InitService ==
  /\ remote \in RemoteInputs
  /\ currentUser \in BOOLEAN
  /\ categories = CATEGORIES
  /\ publishedArticles = << >>
  /\ mergedCategories = CATEGORIES
  /\ selectedCategoryId = CatOrder[1]
  /\ selectedArticleId = 0
  /\ title = 0
  /\ content = 0
  /\ isPublishing = FALSE
  /\ isPublishedToFirebase = FALSE
  /\ publishError = "null"
  /\ notification = "null"
  /\ call = NoCall
  /\ lookups = {}
  /\ nextId = Cardinality(BuiltinIds) + 1
  /\ view = MountView(RootPath)
  /\ ops = 0
  /\ stored = setItem(categories)
  /\ reloads = 0
  /\ image = NoImage
  /\ thrown = "null"

\* the promise of the service function op settles: r is what the function
\* does; call.op keeps the name of the function
ServiceCall(op, r) ==
  /\ thrown' = r.error
  /\ remote' = r.remote
  /\ call' = [NoCall EXCEPT !.op = op]
  /\ UNCHANGED <<appVars, currentUser, formVars, isPublishing, isPublishedToFirebase,
                 publishError, notification, lookups, nextId, viewVars, ops, reloads, image>>

ArticleInput(id, t, isDraft) ==
  [LocalInput(id) EXCEPT !.title = t, !.content = t, !.isDraft = isDraft]

CallPublishArticle(article, c) ==
  ServiceCall("publishArticle", publishArticle(remote, currentUser, article, c))

CallUpdatePublishedArticle(id, updates) ==
  ServiceCall("updatePublishedArticle", updatePublishedArticle(remote, currentUser, id, updates))

CallUnpublishArticle(id) ==
  ServiceCall("unpublishArticle", unpublishArticle(remote, currentUser, id))

NextService ==
  \/ \E id \in ArtIds, t \in Texts, isDraft \in BOOLEAN, c \in CatIds :
       CallPublishArticle(ArticleInput(id, t, isDraft), c)
  \/ \E id \in ArtIds, t \in Texts, isDraft \in BOOLEAN :
       CallUpdatePublishedArticle(id, ArticleInput(id, t, isDraft))
  \/ \E id \in ArtIds : CallUnpublishArticle(id)

SpecService == InitService /\ [][NextService]_vars

----------------------------------------------------------------------------
(* The tag helpers alone: buildTag on any config, parseAlt on the alt text  *)
(* of its tag and on any alt text                                           *)

\* the strings of at most n characters
RECURSIVE Strings(_)
Strings(n) ==
  IF n = 0 THEN {<< >>}
  ELSE Strings(n - 1) \cup {Append(s, c) : s \in Strings(n - 1), c \in Chars}

FieldInputs == Strings(MaxFieldLen) \cup {Center, Auto}
Configs ==
  [caption : FieldInputs, layout : FieldInputs, width : FieldInputs,
   height : FieldInputs, refId : {<<"i">>}]
AltInputs == Strings(MaxFieldLen + 2)

InitAlt ==
  /\ remote = << >>
  /\ currentUser = FALSE
  /\ categories = CATEGORIES
  /\ publishedArticles = << >>
  /\ mergedCategories = CATEGORIES
  /\ selectedCategoryId = CatOrder[1]
  /\ selectedArticleId = 0
  /\ title = 0
  /\ content = 0
  /\ isPublishing = FALSE
  /\ isPublishedToFirebase = FALSE
  /\ publishError = "null"
  /\ notification = "null"
  /\ call = NoCall
  /\ lookups = {}
  /\ nextId = Cardinality(BuiltinIds) + 1
  /\ view = MountView(RootPath)
  /\ ops = 0
  /\ stored = setItem(categories)
  /\ reloads = 0
  /\ \/ \E config \in Configs : image = [NoImage EXCEPT !.stage = "config", !.config = config]
     \/ \E alt \in AltInputs : image = [NoImage EXCEPT !.stage = "alt", !.alt = alt]
  /\ thrown = "null"

\* insertImageAtCursor and handleConfigUpdate build the tag
CallBuildTag ==
  /\ image.stage = "config"
  /\ image' = [image EXCEPT !.stage = "tag", !.tag = buildTag(image.config)]
  /\ UNCHANGED <<appVars, editorVars, remote, currentUser, viewVars, ops, reloads, thrown>>

\* the tag is read back: its alt text is what InteractiveImage and
\* handleConfigUpdate hand to parseAlt
ReadTag ==
  /\ image.stage = "tag"
  /\ image' = [image EXCEPT !.stage = "alt",
                            !.alt = AltText(image.tag, image.config.refId)]
  /\ UNCHANGED <<appVars, editorVars, remote, currentUser, viewVars, ops, reloads, thrown>>

CallParseAlt ==
  /\ image.stage = "alt"
  /\ image' = [image EXCEPT !.stage = "parsed", !.parsed = parseAlt(image.alt)]
  /\ UNCHANGED <<appVars, editorVars, remote, currentUser, viewVars, ops, reloads, thrown>>

NextAlt ==
  \/ CallBuildTag
  \/ ReadTag
  \/ CallParseAlt

SpecAlt == InitAlt /\ [][NextAlt]_vars

----------------------------------------------------------------------------
(* Properties of the merged view *)

NoDuplicateIds(arts) == \A i, j \in 1..Len(arts) : arts[i].id = arts[j].id => i = j

Range(arts) == {arts[i] : i \in 1..Len(arts)}

\* the published articles the subscription delivered for category c
DeliveredFor(c) == {a \in Range(publishedArticles) : a.categoryId = c}

\* C1: in the merged view the list of every category holds an id at most
\* once, and where a published article of the category and a local article
\* have the same id, the entry of the list is the published version.
C1_PublishedTakesPrecedence ==
  \A c \in CatIds :
    /\ NoDuplicateIds(mergedCategories[c])
    /\ \A a \in DeliveredFor(c) : Find(mergedCategories[c], a.id) = a

\* a local article was saved with another title than its published version
\* has, and the merged view was computed from both
C1_Witness ==
  \E c \in CatIds : \E a \in DeliveredFor(c) :
    /\ HasId(categories[c], a.id)
    /\ Find(categories[c], a.id).title # a.title
    /\ mergedCategories = MergeEffect(categories, publishedArticles)

\* C2: the ids of a merged category are the ids of its local articles and
\* the ids of the published articles whose categoryId is the category's; a
\* published article whose categoryId is no local category's is in no
\* merged category.
C2_MergedIds ==
  /\ \A c \in CatIds :
       Ids(mergedCategories[c]) = Ids(categories[c]) \cup {a.id : a \in DeliveredFor(c)}
  /\ \A a \in Range(publishedArticles) :
       a.categoryId \notin CatIds => \A c \in CatIds : a \notin Range(mergedCategories[c])

\* the snapshot holds an article of a category the client does not have and
\* one of a category it has, which holds a local article that is not among
\* the category's published ones
C2_Witness ==
  /\ \E a \in Range(publishedArticles) : a.categoryId \notin CatIds
  /\ \E c \in CatIds :
       /\ DeliveredFor(c) # {}
       /\ \E i \in 1..Len(categories[c]) :
            \A a \in DeliveredFor(c) : a.id # categories[c][i].id
  /\ mergedCategories = MergeEffect(categories, publishedArticles)

----------------------------------------------------------------------------
(* Properties of Update Online, Unpublish and Publish Online *)

\* the step in which the awaited service call of the handler resolves
ServiceSucceeds ==
  /\ call.stage = "service"
  /\ call' = NoCall
  /\ publishError' = "null"
  /\ call.op = "publish" => call.article # NoArticle

UpdateSucceeds == ServiceSucceeds /\ call.op = "publish" /\ call.isPublishedToFirebase

UnpublishSucceeds == ServiceSucceeds /\ call.op = "unpublish"

\* C3: when Update Online succeeds, the remote document carries the title
\* and the content of the local copy as it was saved when the button was
\* clicked.
C3_UpdateCarriesLocalSave ==
  [][UpdateSucceeds /\ call.localAtClick # NoArticle
       => /\ Find(remote', call.articleId).title = call.localAtClick.title
          /\ Find(remote', call.articleId).content = call.localAtClick.content]_vars

\* C4: when Unpublish succeeds, the remote store holds no document of the
\* article and the local categories are as before; and an article that has
\* a local copy is in its merged category, after every step.
C4_UnpublishKeepsLocal ==
  [][/\ UnpublishSucceeds
          => ~HasId(remote', call.articleId) /\ categories' = categories
     /\ \A c \in CatIds : Ids(categories'[c]) \subseteq Ids(mergedCategories'[c])]_vars

\* the author's three actions were to select the built-in article of diary,
\* to publish it and to unpublish it; the local copy is still there
C4_Witness ==
  /\ notification = "Unpublished"
  /\ ops = 3
  /\ selectedArticleId = 1
  /\ remote = << >>
  /\ publishedArticles = << >>
  /\ HasId(categories["diary"], 1)
  /\ HasId(mergedCategories["diary"], 1)

\* C5: every document Publish Online stored has isPublished true, and every
\* published article the subscription delivered is in the list the book
\* shows for its category.
C5_PublishedIsVisible ==
  /\ \A d \in Range(remote) : d.isPublished
  /\ \A c \in CatIds : \A a \in DeliveredFor(c) :
       HasId(visibleArticles(mergedCategories[c]), a.id)

----------------------------------------------------------------------------
(* Properties of the book view *)

----------------------------------------------------------------------------
(* Properties of the writes to the remote store *)

\* C7: a step that changes the local categories (executeSave with
\* handleSaveArticle, handleConfirmDelete with handleDeleteArticle) leaves
\* the remote store as it is, and the remote store changes only in the step
\* in which the service call of Publish Online, Update Online or Unpublish
\* resolves.
C7_LocalSavesStayLocal ==
  [][/\ categories' # categories => remote' = remote
     /\ remote' # remote => ServiceSucceeds]_vars

\* a published article was saved locally with another title, and its remote
\* document still has the title that was published
C7_Witness ==
  \E c \in CatIds : \E i \in 1..Len(categories[c]) :
    /\ HasId(remote, categories[c][i].id)
    /\ Find(remote, categories[c][i].id).title # categories[c][i].title

AuthError(op) ==
  CASE op = "publishArticle" -> "Must be authenticated to publish articles"
    [] op = "updatePublishedArticle" -> "Must be authenticated to update articles"
    [] op = "unpublishArticle" -> "Must be authenticated to unpublish articles"

\* C8: called when no user is signed in, publishArticle,
\* updatePublishedArticle and unpublishArticle throw their 'Must be
\* authenticated' error and leave the remote store as it is.
C8_MustBeAuthenticated ==
  [][~currentUser /\ call'.op # "none"
       => thrown' = AuthError(call'.op) /\ remote' = remote]_vars

\* updatePublishedArticle was called without a user on a store that holds
\* documents, and threw
C8_Witness ==
  /\ ~currentUser
  /\ call.op = "updatePublishedArticle"
  /\ thrown = "Must be authenticated to update articles"
  /\ remote # << >>

\* C9: the handler calls the service only with a signed-in user: a click
\* without one waits for signInAnonymously first; when the sign-in fails the
\* remote store stays as it is and publishError is set; and the remote
\* store changes only while a user is signed in.
C9_SignInFirst ==
  [][/\ call'.stage = "service" => currentUser'
     /\ call.stage = "none" /\ call'.stage # "none" /\ ~currentUser
          => call'.stage = "signin"
     /\ call.stage = "signin" /\ call' = NoCall
          => remote' = remote /\ publishError' # "null" /\ ~isPublishing'
     /\ remote' # remote => currentUser]_vars

\* no document was ever written, and the handler of a click has signed the
\* user in and now awaits the service
C9_Witness ==
  /\ call.stage = "service"
  /\ currentUser
  /\ remote = << >>
  /\ isPublishing

----------------------------------------------------------------------------
(* Properties of the deletion *)

\* a confirmed deletion that removes the local copy of the selected article
DeleteConfirmed ==
  /\ selectedArticleId # 0
  /\ categories' = handleDeleteArticle(categories, selectedCategoryId, selectedArticleId)
  /\ categories' # categories

\* C10: after a confirmed deletion the entry is no longer in its merged
\* category.
C10_DeletionRemovesEntry ==
  [][DeleteConfirmed
       => ~HasId(mergedCategories'[selectedCategoryId], selectedArticleId)]_vars

----------------------------------------------------------------------------
(* The view alone: App with the clicks on covers, Escape or the book's     *)
(* back button, the browser's back and forward buttons and the timers,     *)
(* while the categories and the published articles stay as they are.       *)

NextView ==
  \/ \E c \in CatIds : handleCategorySelect(c)
  \/ handleBackToHome
  \/ BrowserBack
  \/ BrowserForward
  \/ \E i \in 1..2 : TimerFires(i)

SpecView == Init /\ [][NextView]_vars

----------------------------------------------------------------------------
(* The shelf and the book while the author writes, saves and publishes in  *)
(* the editor and snapshots arrive: the visitor clicks covers and goes     *)
(* back with Escape or the book's button, and uses no browser navigation.  *)

NextZoom ==
  \/ \E c \in CatIds : handleCategorySelect(c)
  \/ handleBackToHome
  \/ \E i \in 1..2 : TimerFires(i)
  \/ \E t \in Texts : SetTitle(t)
  \/ \E c \in Texts : SetContent(c)
  \/ \E a \in ArtIds : handleEntryChange(a)
  \/ \E isDraft \in BOOLEAN : executeSave(isDraft)
  \/ handlePublishToFirebase
  \/ \E ok \in BOOLEAN : SignInSettles(ok)
  \/ \E delivered \in BOOLEAN : ServiceSettles(delivered)
  \/ DeliverSnapshot
  \/ LookupRead
  \/ LookupResolve

SpecZoom == Init /\ [][NextZoom]_vars

----------------------------------------------------------------------------
(* Properties of the view *)

\* C11: whenever no animation timer is pending, the path is the root exactly
\* when animationPhase is IDLE with no selected category, and when the first
\* segment of the path is the id of a category, the phase is READING and
\* that category is the selected one.
C11_ViewMatchesUrl ==
  timers = << >> =>
    /\ location.cat = "" <=> (animationPhase = "IDLE" /\ selectedCategory = "")
    /\ location.cat \in CatIds =>
         animationPhase = "READING" /\ selectedCategory = location.cat

----------------------------------------------------------------------------
(* Properties of the local persistence                                     *)

----------------------------------------------------------------------------
(* Properties of the status indicator                                      *)

\* C13: in the step in which the last pending publish-status lookup
\* completes, none of the pending lookups having failed, isPublishedToFirebase
\* becomes true exactly when the selected article has a remote document with
\* isPublished true.
C13_StatusMatchesRemote ==
  [][(/\ lookups # {} /\ lookups' = {}
      /\ \A l \in lookups : l.res # "sent"
      /\ selectedArticleId' # 0)
       => (isPublishedToFirebase'
             <=> isArticlePublished(remote', selectedArticleId'))]_vars

----------------------------------------------------------------------------
(* Properties of the zoom                                                  *)

IsZoom(t) == t.kind = "zoom"

\* the callback of the 600 ms timer of handleCategorySelect runs in this step
ZoomFires == reloads' = reloads /\ Len(SelectSeq(timers', IsZoom)) < Len(SelectSeq(timers, IsZoom))

\* C14: a click on a cover in phase IDLE gives phase ZOOMING at once; when
\* the 600 ms timer fires the phase is READING, the first segment of the
\* path is the category of the timer (the book then opens its first entry)
\* and that category is the selected one; and no step
\* other than an action of the user leaves phase READING.
C14_ClickZoomRead ==
  [][/\ (animationPhase = "IDLE" /\ Len(SelectSeq(timers', IsZoom)) > Len(SelectSeq(timers, IsZoom)))
          => animationPhase' = "ZOOMING"
     /\ ZoomFires
          => \E c \in CatIds :
               /\ ZoomTimer(c) \in Range(timers)
               /\ animationPhase' = "READING"
               /\ location'.cat = c
               /\ selectedCategory' = c
     /\ (animationPhase = "READING" /\ ops' = ops)
          => animationPhase' = "READING"]_vars

----------------------------------------------------------------------------
(* Properties of the tag helpers                                           *)

\* the fields of the config are non-empty and contain no '|'
FieldsOk(config) ==
  \A f \in {"caption", "layout", "width", "height"} :
    config[f] # << >> /\ ~HasBar(config[f])

\* field i of the alt text is missing: there is no such part, or it is empty
Missing(alt, i) == Len(Split(alt)) < i \/ Split(alt)[i] = << >>

\* C15: parseAlt of the alt text of buildTag(config) returns the caption,
\* layout, width and height of config when these are non-empty and contain
\* no '|'; and parseAlt of any alt text gives an empty caption, layout
\* 'center', width 'auto' and height 'auto' for the fields that are missing.
C15_AltRoundTrips ==
  image.stage = "parsed" =>
    /\ (image.tag # << >> /\ FieldsOk(image.config)) =>
         /\ image.parsed.caption = image.config.caption
         /\ image.parsed.layout = image.config.layout
         /\ image.parsed.width = image.config.width
         /\ image.parsed.height = image.config.height
    /\ Missing(image.alt, 1) => image.parsed.caption = << >>
    /\ Missing(image.alt, 2) => image.parsed.layout = Center
    /\ Missing(image.alt, 3) => image.parsed.width = Auto
    /\ Missing(image.alt, 4) => image.parsed.height = Auto

\* a tag was built from a config whose fields differ from each other and
\* from the defaults, and its alt text was parsed
C15_Witness ==
  /\ image.stage = "parsed"
  /\ image.tag # << >>
  /\ FieldsOk(image.config)
  /\ image.config.caption = <<"a", "a">>
  /\ image.config.layout = Auto
  /\ image.config.width = <<"a">>
  /\ image.config.height = Center

====
